---------------------------- MODULE Spec2Model ----------------------------
(***************************************************************************)
(* A model of the task-tracking / authentication backend of                *)
(* learnings/app: the HTTP handlers of main.py, the request schemas of     *)
(* schemas.py and the two tables of models.py.                             *)
(*                                                                         *)
(* Requests are processes.  A request arrives (its get_db dependency opens *)
(* a session), its handler runs one source statement group per step, and   *)
(* the dependency's finally block closes the session.  Steps of different  *)
(* requests interleave freely, as they do in the server's worker threads.  *)
(*                                                                         *)
(* Strings that are compared with one another across kinds (plaintext      *)
(* passwords, stored hashes) are modelled as tuples of symbols, so that    *)
(* "the stored value differs from the plaintext" is a comparison the model *)
(* can get wrong.                                                          *)
(***************************************************************************)
EXTENDS Integers, Sequences, FiniteSets

\* Number of requests the server receives in one behaviour.
NumRequests == 3

\* Number of requests the server works on at the same time.
MaxInFlight == 2

Req == 1..NumRequests

\* Python's None, as the value of an optional string column or field.
None == "<None>"

Usernames == {"alice", "bob"}
Passwords == {<<"secret">>, <<"hunter2">>}

\* JSON bodies sent to POST /tasks/: a record holds the keys the client sent.
TaskBodies ==
    { [title |-> "Buy milk"],
      [title |-> "Walk dog", description |-> "evening", completed |-> TRUE],
      [description |-> "no title"] }

\* JSON bodies sent to POST /register/.
UserBodies ==
    [username : Usernames, password : Passwords] \cup { [username |-> "alice"] }

\* Query parameters sent to POST /token/.
LoginParams == [username : Usernames, password : Passwords]

\* The requests that take a database session, by route.
CreateTaskRequests == { [kind |-> "create_task", body |-> b] : b \in TaskBodies }
ReadTasksRequests == { [kind |-> "read_tasks"] }
RegisterRequests == { [kind |-> "register", body |-> b] : b \in UserBodies }
LoginRequests ==
    { [kind |-> "login", username |-> p.username, password |-> p.password] :
        p \in LoginParams }

Requests ==
    CreateTaskRequests \cup ReadTasksRequests \cup RegisterRequests \cup LoginRequests

NoRequest == [kind |-> "none"]
NoResponse == [status |-> 0]

VARIABLES
    pc,        \* pc[r]: where request r is
    req,       \* req[r]: the request r carries
    db,        \* db[r]: the session get_db yielded to r (0: none)
    user,      \* user[r]: login's local variable `user` (<<>>: None)
    resp,      \* resp[r]: the response r produced
    sessions,  \* every session SessionLocal has made
    tasks,     \* table tasks, in storage order
    users      \* table users, in storage order

vars == <<pc, req, db, user, resp, sessions, tasks, users>>

--------------------------------------------------------------------------
(* schemas.py *)

\* TaskBase / TaskCreate: title is required.
TaskCreate_valid(body) == "title" \in DOMAIN body

\* Variant: completed defaults to True.
TaskCreate_default_true(body) ==
    [ title |-> body.title,
      description |-> IF "description" \in DOMAIN body THEN body.description ELSE None,
      completed |-> IF "completed" \in DOMAIN body THEN body.completed ELSE TRUE ]

\* TaskBase / TaskCreate: the parsed model, absent fields at their defaults.
TaskCreate(body) ==
    [ title |-> body.title,
      description |-> IF "description" \in DOMAIN body THEN body.description ELSE None,
      completed |-> IF "completed" \in DOMAIN body THEN body.completed ELSE FALSE ]

\* UserCreate: username and password are both required.
UserCreate_valid(body) == {"username", "password"} \subseteq DOMAIN body

\* Whether the body of request q passes its schema.
Valid(q) ==
    CASE q.kind = "create_task" -> TaskCreate_valid(q.body)
      [] q.kind = "register" -> UserCreate_valid(q.body)
      [] OTHER -> TRUE

--------------------------------------------------------------------------
(* models.py *)

RECURSIVE MaxId(_)
\* The largest key in the table (0 when it is empty).
MaxId(table) ==
    IF table = <<>> THEN 0
    ELSE LET m == MaxId(Tail(table)) IN
         IF Head(table).id > m THEN Head(table).id ELSE m

\* Column(Integer, primary_key=True): the key the store assigns to a new row.
NextId(table) == MaxId(table) + 1

\* Variant: the column is declared without unique=True.
UniqueViolation_off(table, username) == FALSE

\* User.username, unique=True: inserting `username` breaks the constraint.
UniqueViolation(table, username) ==
    \E i \in 1..Len(table) : table[i].username = username

--------------------------------------------------------------------------
(* auth.py, crud.py, database.py: imported by main.py *)

\* auth.get_password_hash: a salted one-way hash, as the symbolic term
\* <<scheme, salt, plaintext symbols>>; two hashes are equal only when salt
\* and plaintext are.
get_password_hash(password, salt) == <<"$hash$", salt>> \o password

\* The salt the scheme draws for the hash made by request r: random, and so
\* told apart from the salt of every other call.
FreshSalt(r) == r

\* auth.verify_password: rehash the plaintext under the stored hash's salt.
verify_password(password, hashed) ==
    /\ Len(hashed) >= 2
    /\ hashed[1] = "$hash$"
    /\ hashed = get_password_hash(password, hashed[2])

\* auth.create_access_token: a signed token carrying the claims.
create_access_token(data) == <<"jwt", data.sub, "signature">>

\* database.SessionLocal: a new session, nothing pending.
SessionLocal(r) == [opener |-> r, open |-> TRUE, new |-> <<>>]

\* crud.create_task: insert one row made from the parsed body, commit,
\* return the row with the key the store gave it.
crud_create_task(table, task) ==
    LET row == [ id |-> NextId(table),
                 title |-> task.title,
                 description |-> task.description,
                 completed |-> task.completed ]
    IN  [table |-> Append(table, row), row |-> row]

\* crud.get_tasks: every row, in storage order.
crud_get_tasks(table) == table

--------------------------------------------------------------------------
(* main.py *)

RECURSIVE Flush(_, _)
\* Session.flush: insert the pending user rows in the order they were added.
Flush(table, pending) ==
    IF pending = <<>> THEN [ok |-> TRUE, table |-> table]
    ELSE IF UniqueViolation(table, Head(pending).username)
         THEN [ok |-> FALSE, table |-> table]
         ELSE Flush(Append(table, [ id |-> NextId(table),
                                    username |-> Head(pending).username,
                                    password |-> Head(pending).password ]),
                    Tail(pending))

\* db.commit() of register: the pending rows are inserted in one transaction;
\* a uniqueness violation raises IntegrityError and the transaction is rolled
\* back.
Commit(table, pending) ==
    LET res == Flush(table, pending) IN
    IF res.ok THEN res ELSE [ok |-> FALSE, table |-> table]

Init ==
    /\ pc = [r \in Req |-> "idle"]
    /\ req = [r \in Req |-> NoRequest]
    /\ db = [r \in Req |-> 0]
    /\ user = [r \in Req |-> <<>>]
    /\ resp = [r \in Req |-> NoResponse]
    /\ sessions = <<>>
    /\ tasks = <<>>
    /\ users = <<>>

\* The requests the server is working on.
InFlight == {q \in Req : pc[q] \notin {"idle", "done"}}

\* Requests are numbered in the order they arrive; one is taken up when a
\* worker is free.
Arrives(r) ==
    /\ pc[r] = "idle"
    /\ \A q \in 1..(r - 1) : pc[q] # "idle"
    /\ Cardinality(InFlight) < MaxInFlight

\* The session the request holds has ended its unit of work.
Closed(s) == [s EXCEPT !.open = FALSE, !.new = <<>>]

\* Variant: one module-level session, yielded to every request.
get_db_shared(r) ==
    /\ sessions' = IF sessions = <<>> THEN <<SessionLocal(r)>>
                   ELSE [sessions EXCEPT ![1].open = TRUE]
    /\ db' = [db EXCEPT ![r] = 1]

\* get_db, up to its yield: db = SessionLocal().
get_db_enter(r) ==
    /\ sessions' = Append(sessions, SessionLocal(r))
    /\ db' = [db EXCEPT ![r] = Len(sessions) + 1]

\* Variant: db.close() placed after the yield, outside any finally.
get_db_exit_no_finally(s, raised) == IF raised THEN s ELSE Closed(s)

\* get_db, after its yield: finally: db.close(), whether or not the handler
\* raised.
get_db_exit(s, raised) == Closed(s)

\* A request for one of the four routes that depend on get_db arrives; the
\* dependency is solved before the body is validated and the handler called.
Start(r) ==
    /\ Arrives(r)
    /\ get_db_enter(r)
    /\ pc' = [pc EXCEPT ![r] = "opened"]
    /\ UNCHANGED <<user, req, resp, tasks, users>>

\* Request r, its session open, turns out to carry q: a step reads the
\* route and the body when it first needs them.
Carries(r, q) == req' = [req EXCEPT ![r] = q]

\* The body fails its schema: the handler is not called, 422 is returned.
validation_error(r) ==
    /\ pc[r] = "opened"
    /\ \E q \in Requests : ~Valid(q) /\ Carries(r, q)
    /\ resp' = [resp EXCEPT ![r] = [status |-> 422, body |-> [detail |-> "validation error"]]]
    /\ pc' = [pc EXCEPT ![r] = "exit"]
    /\ UNCHANGED <<user, db, sessions, tasks, users>>

\* GET /: return RedirectResponse(url="/docs"), whose status is the
\* framework's default; no session is taken.
read_root(r) ==
    /\ Arrives(r)
    /\ req' = [req EXCEPT ![r] = [kind |-> "read_root"]]
    /\ resp' = [resp EXCEPT ![r] = [status |-> 307, body |-> "/docs"]]
    /\ pc' = [pc EXCEPT ![r] = "done"]
    /\ UNCHANGED <<user, db, sessions, tasks, users>>

\* Variant: the handler calls crud.create_task twice.
create_task_twice(table, task) ==
    crud_create_task(crud_create_task(table, task).table, task)

\* create_task's body: return crud.create_task(db, task).
create_task_body(table, task) == crud_create_task(table, task)

\* POST /tasks/.
create_task(r) ==
    /\ pc[r] = "opened"
    /\ \E q \in CreateTaskRequests :
         /\ Valid(q)
         /\ Carries(r, q)
         /\ LET res == create_task_body(tasks, TaskCreate(q.body))
            IN  /\ tasks' = res.table
                /\ resp' = [resp EXCEPT ![r] = [status |-> 200, body |-> res.row]]
    /\ pc' = [pc EXCEPT ![r] = "exit"]
    /\ UNCHANGED <<user, db, sessions, users>>

\* Variant: the handler returns no more than one row.
read_tasks_first(table) ==
    LET rows == crud_get_tasks(table)
    IN  IF Len(rows) > 1 THEN <<Head(rows)>> ELSE rows

\* read_tasks's body: return crud.get_tasks(db).
read_tasks_body(table) == crud_get_tasks(table)

\* GET /tasks/.
read_tasks(r) ==
    /\ pc[r] = "opened"
    /\ \E q \in ReadTasksRequests : Carries(r, q)
    /\ resp' = [resp EXCEPT ![r] = [status |-> 200, body |-> read_tasks_body(tasks)]]
    /\ pc' = [pc EXCEPT ![r] = "exit"]
    /\ UNCHANGED <<user, db, sessions, tasks, users>>

\* Variant: the plaintext is stored.
new_user_plain(body, salt) ==
    [username |-> body.username, password |-> body.password]

\* register: hashed_password = auth.get_password_hash(user.password);
\* db_user = models.User(username=user.username, password=hashed_password).
new_user(body, salt) ==
    [username |-> body.username, password |-> get_password_hash(body.password, salt)]

\* POST /register/, up to db.add(db_user): the row is pending in the session.
register_add(r) ==
    /\ pc[r] = "opened"
    /\ \E q \in RegisterRequests :
         /\ Valid(q)
         /\ Carries(r, q)
         /\ sessions' = [sessions EXCEPT ![db[r]].new =
                           Append(@, new_user(q.body, FreshSalt(r)))]
    /\ pc' = [pc EXCEPT ![r] = "added"]
    /\ UNCHANGED <<user, db, resp, tasks, users>>

\* Variant: the handler catches the storage error and answers as on success.
register_result_swallow(ok) ==
    [status |-> 200, body |-> [message |-> "User created"]]

\* register, after db.commit(): return {"message": "User created"}; an
\* IntegrityError is not caught, leaves the handler and is answered with 500.
register_result(ok) ==
    IF ok THEN [status |-> 200, body |-> [message |-> "User created"]]
    ELSE [status |-> 500, body |-> [detail |-> "Internal Server Error"]]

\* POST /register/, db.commit() and the return.
register_commit(r) ==
    /\ pc[r] = "added"
    /\ LET res == Commit(users, sessions[db[r]].new)
       IN  /\ users' = res.table
           /\ resp' = [resp EXCEPT ![r] = register_result(res.ok)]
    /\ sessions' = [sessions EXCEPT ![db[r]].new = <<>>]
    /\ pc' = [pc EXCEPT ![r] = "exit"]
    /\ UNCHANGED <<user, req, db, tasks>>

\* db.query(models.User).filter(models.User.username == username).first():
\* <<>> for None.
first_user(table, username) ==
    LET hits == SelectSeq(table, LAMBDA row : row.username = username)
    IN  SubSeq(hits, 1, IF Len(hits) > 0 THEN 1 ELSE 0)

\* Variant: an unknown username is answered with 404.
login_result_404(found, username, password) ==
    IF found = <<>>
    THEN [status |-> 404, body |-> [detail |-> "User not found"]]
    ELSE IF ~verify_password(password, found[1].password)
         THEN [status |-> 401, body |-> [detail |-> "Invalid credentials"]]
         ELSE [ status |-> 200,
                body |-> [ access_token |-> create_access_token([sub |-> username]),
                           token_type |-> "bearer" ] ]

\* Variant: the verification's result is not negated.
login_result_not_negated(found, username, password) ==
    IF found = <<>> \/ verify_password(password, found[1].password)
    THEN [status |-> 401, body |-> [detail |-> "Invalid credentials"]]
    ELSE [ status |-> 200,
           body |-> [ access_token |-> create_access_token([sub |-> username]),
                      token_type |-> "bearer" ] ]

\* login, after the query (found is the value of `user`): if not user or not
\* auth.verify_password(password, user.password): raise HTTPException(401, "Invalid credentials"); else the
\* token.
login_result(found, username, password) ==
    IF found = <<>> \/ ~verify_password(password, found[1].password)
    THEN [status |-> 401, body |-> [detail |-> "Invalid credentials"]]
    ELSE [ status |-> 200,
           body |-> [ access_token |-> create_access_token([sub |-> username]),
                      token_type |-> "bearer" ] ]

\* POST /token/: the query for the user row, the check and the answer.  What
\* follows the query reads only the handler's own variables.
login(r) ==
    /\ pc[r] = "opened"
    /\ \E q \in LoginRequests :
         /\ Carries(r, q)
         /\ user' = [user EXCEPT ![r] = first_user(users, q.username)]
         /\ resp' = [resp EXCEPT ![r] =
                       login_result(user'[r], q.username, q.password)]
    /\ pc' = [pc EXCEPT ![r] = "exit"]
    /\ UNCHANGED <<db, sessions, tasks, users>>

\* The request raised: its response is an error status.
Raised(r) == resp[r].status >= 400

\* The request completes: get_db resumes after its yield.
Finish(r) ==
    /\ pc[r] = "exit"
    /\ sessions' = [sessions EXCEPT ![db[r]] = get_db_exit(@, Raised(r))]
    /\ pc' = [pc EXCEPT ![r] = "done"]
    /\ UNCHANGED <<user, req, db, resp, tasks, users>>

Next ==
    \E r \in Req :
        \/ Start(r)
        \/ validation_error(r)
        \/ read_root(r)
        \/ create_task(r)
        \/ read_tasks(r)
        \/ register_add(r)
        \/ register_commit(r)
        \/ login(r)
        \/ Finish(r)

Spec == Init /\ [][Next]_vars

--------------------------------------------------------------------------
(* Properties *)

\* Request r is answered in this step.
Answered(r) == resp[r].status = 0 /\ resp'[r].status # 0

\* Request r, of route kind, is answered in this step.
AnsweredAs(r, kind) == Answered(r) /\ req'[r].kind = kind

\* Request r has been answered with 200 on route kind.
Succeeded(r, kind) == req[r].kind = kind /\ resp[r].status = 200

\* The keys of the rows of a table.
Ids(table) == {table[i].id : i \in 1..Len(table)}

\* The rows of table users that carry username.
RowsOf(username) == {i \in 1..Len(users) : users[i].username = username}

\* The one answer login gives to credentials it rejects.
Unauthorized == [status |-> 401, body |-> [detail |-> "Invalid credentials"]]

\* C1: POST /token/ answers 401 both when no user row has the username and
\* when a row has it but the password does not verify against the stored
\* hash; the two answers are the same status and detail, and carry no token.
C1_LoginRejects ==
    [][\A r \in Req :
         AnsweredAs(r, "login") =>
           LET unknown == RowsOf(req'[r].username) = {}
               mismatch == \E i \in RowsOf(req'[r].username) :
                              ~verify_password(req'[r].password, users[i].password)
           IN  (unknown \/ mismatch) =>
                 /\ resp'[r] = Unauthorized
                 /\ "access_token" \notin DOMAIN resp'[r].body]_vars

\* C1, reached: one login was rejected for an unknown username and another
\* for a wrong password, with equal answers.
C1_Witness ==
    \E r1, r2 \in Req :
        /\ req[r1].kind = "login" /\ req[r2].kind = "login"
        /\ resp[r1].status = 401 /\ resp[r2] = resp[r1]
        /\ user[r1] = <<>>
        /\ user[r2] # <<>>
        /\ ~verify_password(req[r2].password, user[r2][1].password)

\* C2: once POST /register/ with (U, P) has succeeded, a later POST /token/
\* with (U, P) is answered 200 with a non-empty access_token and token_type
\* "bearer".
C2_RegisteredCanLogin ==
    [][\A r \in Req :
         ( /\ AnsweredAs(r, "login")
           /\ \E g \in Req :
                /\ Succeeded(g, "register")
                /\ req[g].body.username = req'[r].username
                /\ req[g].body.password = req'[r].password )
         => /\ resp'[r].status = 200
            /\ resp'[r].body.access_token # <<>>
            /\ resp'[r].body.token_type = "bearer"]_vars

\* C2, reached: a login with registered credentials got its token, after a
\* second registration of the same username had failed.
C2_Witness ==
    \E r, g, h \in Req :
        /\ Succeeded(r, "login") /\ Succeeded(g, "register")
        /\ req[g].body.username = req[r].username
        /\ req[g].body.password = req[r].password
        /\ resp[r].body.token_type = "bearer"
        /\ req[h].kind = "register" /\ resp[h].status = 500
        /\ user[r] # <<>>

\* The requests whose POST /tasks/ has succeeded.
Created == {c \in Req : Succeeded(c, "create_task")}

\* The title, description and completed value a body submits, absent keys
\* read as null and false.
Submitted(body) ==
    << body.title,
       IF "description" \in DOMAIN body THEN body.description ELSE None,
       IF "completed" \in DOMAIN body THEN body.completed ELSE FALSE >>

\* C3: when N POST /tasks/ calls have succeeded, GET /tasks/ returns exactly
\* N records, one per successful creation, each with the submitted title,
\* description and completed value.
C3_ReadReturnsAllCreated ==
    [][\A r \in Req :
         AnsweredAs(r, "read_tasks") =>
           LET body == resp'[r].body IN
           /\ resp'[r].status = 200
           /\ Len(body) = Cardinality(Created)
           /\ \A c \in Created :
                /\ Cardinality({i \in 1..Len(body) : body[i].id = resp[c].body.id}) = 1
                /\ \A i \in 1..Len(body) :
                     body[i].id = resp[c].body.id =>
                       <<body[i].title, body[i].description, body[i].completed>>
                         = Submitted(req[c].body)]_vars

\* C3, reached: GET /tasks/ returned two records after two creations.
C3_Witness ==
    \E r \in Req :
        /\ Succeeded(r, "read_tasks")
        /\ Len(resp[r].body) = 2
        /\ Cardinality(Created) = 2

\* C4: POST /tasks/ with only a title returns completed false and description
\* null, and every POST /tasks/ returns an integer id that no task row
\* created before it has.
C4_TitleOnlyDefaultsNewId ==
    [][\A r \in Req :
         AnsweredAs(r, "create_task") /\ resp'[r].status = 200 =>
           /\ resp'[r].body.id \in Int
           /\ resp'[r].body.id \notin Ids(tasks)
           /\ DOMAIN req'[r].body = {"title"} =>
                /\ resp'[r].body.completed = FALSE
                /\ resp'[r].body.description = None
                /\ resp'[r].body.title = req'[r].body.title]_vars

\* C4, reached: a title-only task was created after another task and got a
\* different id.
C4_Witness ==
    \E r, c \in Created :
        /\ DOMAIN req[r].body = {"title"}
        /\ resp[r].body.completed = FALSE
        /\ resp[r].body.id = 2
        /\ resp[c].body.id = 1

\* C5: no two rows of table users have the same username, also while
\* registrations of one username are in flight together.
C5_UsernameUnique ==
    \A i, j \in 1..Len(users) :
        users[i].username = users[j].username => i = j

\* C5, reached: two registrations of one username were in flight together;
\* one was stored and the other refused.
C5_Witness ==
    \E r1, r2 \in Req :
        /\ pc[r1] = "exit" /\ pc[r2] = "exit"
        /\ req[r1].kind = "register" /\ req[r2].kind = "register"
        /\ req[r1].body.username = req[r2].body.username
        /\ resp[r1].status = 200 /\ resp[r2].status = 500
        /\ Cardinality(RowsOf(req[r1].body.username)) = 1

\* The answer register gives when it has stored the user.
UserCreated == [status |-> 200, body |-> [message |-> "User created"]]

\* C6: POST /register/ with a body that passes the schema and a username that
\* already has a row is not answered "User created" but with the unhandled
\* error's 500, and leaves table users as it was: no row added, the existing
\* row's password unchanged.
C6_DuplicateRegisterFails ==
    [][\A r \in Req :
         ( /\ AnsweredAs(r, "register")
           /\ Valid(req'[r])
           /\ RowsOf(req'[r].body.username) # {} ) =>
           /\ resp'[r] # UserCreated
           /\ resp'[r].status = 500
           /\ users' = users]_vars

\* C6, reached: a registration of a taken username, with another password,
\* was answered 500 and the stored hash is still the first password's.
C6_Witness ==
    \E r, g \in Req :
        /\ req[r].kind = "register" /\ resp[r].status = 500
        /\ Succeeded(g, "register")
        /\ req[g].body.username = req[r].body.username
        /\ req[g].body.password # req[r].body.password
        /\ Len(users) = 1
        /\ verify_password(req[g].body.password, users[1].password)
        /\ ~verify_password(req[r].body.password, users[1].password)

\* C7: every session opened for a request is closed when the request has
\* completed, whether it returned, raised 401 or failed in commit.
C7_SessionClosedAtEnd ==
    /\ \A r \in Req : pc[r] = "done" /\ db[r] # 0 => ~sessions[db[r]].open
    /\ \A s \in 1..Len(sessions) :
         sessions[s].open => pc[sessions[s].opener] \in {"opened", "added", "exit"}

\* C7, reached: requests answered 200, 401 and 500 have completed and no
\* session is open.
C7_Witness ==
    /\ \A r \in Req : pc[r] = "done" /\ db[r] # 0
    /\ \A code \in {200, 401, 500} : \E r \in Req : resp[r].status = code
    /\ \A s \in 1..Len(sessions) : ~sessions[s].open

\* C8: the password column of every user row holds the hash of the password
\* submitted at registration, never the plaintext: each successful
\* registration's row verifies the submitted password and differs from it.
C8_PasswordStoredHashed ==
    /\ \A g \in Req :
         Succeeded(g, "register") =>
           \E i \in RowsOf(req[g].body.username) :
              /\ users[i].password # req[g].body.password
              /\ verify_password(req[g].body.password, users[i].password)
    /\ \A i \in 1..Len(users) :
         /\ users[i].password \notin Passwords
         /\ \E g \in Req :
              /\ Succeeded(g, "register")
              /\ req[g].body.username = users[i].username

\* C8, reached: two users are registered with the same password.
C8_Witness ==
    \E g, h \in Req :
        /\ g # h
        /\ Succeeded(g, "register") /\ Succeeded(h, "register")
        /\ req[g].body.password = req[h].body.password
        /\ Len(users) = 2

\* Table `after` keeps every row of table `before`, in place.
Keeps(before, after) ==
    /\ Len(after) >= Len(before)
    /\ \A i \in 1..Len(before) : after[i] = before[i]

\* C9: a successful POST /tasks/ adds one row to tasks and changes no other
\* row of either table; a successful POST /register/ adds one row to users
\* and changes no other row of either table; no step updates or deletes a
\* row, and rows are added by these two calls only.
C9_OneRowPerCreation ==
    [][/\ Keeps(tasks, tasks') /\ Keeps(users, users')
       /\ \A r \in Req :
            AnsweredAs(r, "create_task") /\ resp'[r].status = 200 =>
              Len(tasks') = Len(tasks) + 1 /\ users' = users
       /\ \A r \in Req :
            AnsweredAs(r, "register") /\ resp'[r].status = 200 =>
              Len(users') = Len(users) + 1 /\ tasks' = tasks
       /\ tasks' # tasks =>
            \E r \in Req : AnsweredAs(r, "create_task") /\ resp'[r].status = 200
       /\ users' # users =>
            \E r \in Req : AnsweredAs(r, "register") /\ resp'[r].status = 200]_vars

\* C9, reached: both tables hold rows, tasks more than one.
C9_Witness ==
    /\ Len(tasks) = 2
    /\ Len(users) = 1
    /\ \E r \in Req : Succeeded(r, "register")

\* The requests that hold a session.
Holding == {r \in Req : pc[r] \in {"opened", "added", "exit"}}

\* C10: each request works through a session it opened itself, which is open
\* while the request holds it and is held by no other request; what is
\* pending in a session was added by the request that opened it.
C10_SessionPerRequest ==
    /\ \A r \in Holding :
         /\ db[r] \in 1..Len(sessions)
         /\ sessions[db[r]].opener = r
         /\ sessions[db[r]].open
         /\ \A q \in Holding : q # r => db[q] # db[r]
    /\ \A s \in 1..Len(sessions) :
         \A i \in 1..Len(sessions[s].new) :
            /\ pc[sessions[s].opener] = "added"
            /\ db[sessions[s].opener] = s
            /\ sessions[s].new[i].username = req[sessions[s].opener].body.username

\* C10, reached: two requests hold sessions at the same time, each with its
\* own row pending.
C10_Witness ==
    \E r1, r2 \in Req :
        /\ r1 # r2
        /\ pc[r1] = "added" /\ pc[r2] = "added"
        /\ db[r1] # db[r2]
        /\ Len(sessions[db[r1]].new) = 1 /\ Len(sessions[db[r2]].new) = 1

==========================================================================
